---------------------------- MODULE Spec2Model ----------------------------
(***************************************************************************)
(* Model of the alerting core of ndvi-alert-bot.  The repository holds     *)
(* four deployments of the same pass (fetch, record, decide, notify,       *)
(* aggregate):                                                             *)
(*   "daily"  daily_check          src/maize_monitor/config.py + utils.py  *)
(*   "brine"  check_brine_change   src/lithium_monitor/main.py             *)
(*   "ndvi"   check_ndvi_drop      src/maize_monitor/main.py               *)
(*   "main"   main                 src/main.py                             *)
(* A behaviour follows one deployment (prog is fixed by Init).             *)
(*                                                                         *)
(* Encoding of numbers (TLC has integers only):                            *)
(*   - dates are day numbers; the clock `now` counts days;                 *)
(*   - an index reading is an integer number of units of 0.04 (anomaly and *)
(*     z-score are ratios, so the unit cancels);                           *)
(*   - anomaly and z-score, which the code rounds to 2 decimals, are       *)
(*     carried in hundredths (-1500 is -15.00 %, -100 is z = -1.00);       *)
(*   - weights are carried in the unit given beside each registry.         *)
(***************************************************************************)
EXTENDS Integers, Sequences, FiniteSets, TLC

VARIABLES
    prog,      \* the deployment this behaviour runs
    now,       \* the wall clock, in days
    file,      \* the history file: the sequence of its lines
    sent,      \* the messages handed to the notifier, in order
    passes,    \* number of passes started so far
    ticks,     \* number of times the clock was advanced
    pc,        \* per process: where its pass stands
    loc        \* per process: the local variables of its pass

vars == <<prog, now, file, sent, passes, ticks, pc, loc>>

-----------------------------------------------------------------------------
(* Bounds of the model *)

\* zones of each registry that are modelled (a prefix of the registry)
NumZones == 2
\* passes started in one behaviour
MaxPasses == 2
\* advances of the clock in one behaviour
MaxTicks == 1

-----------------------------------------------------------------------------
(* Program constants *)

\* should_trigger_alert(threshold_pct=-15), config["threshold_drop_pct"]
THRESHOLD_DROP_PCT == -1500
\* should_trigger_alert(threshold_z=-1.0), config["threshold_zscore"]
THRESHOLD_Z == -100
\* `days_since >= 7` in should_trigger_alert; MIN_DAYS_BETWEEN_SIGNALS
MIN_DAYS_BETWEEN_SIGNALS == 7
\* `len(history) < 5` in utils.compute_anomaly
MIN_SAMPLES == 5
\* `global_alert_score >= 0.10`, in hundredths of the production
GLOBAL_COVERAGE == 10

\* the two processes that may run a pass (a cron run, a manual run)
Procs == {1, 2}

None == -1000

Min(a, b) == IF a <= b THEN a ELSE b

Abs(x) == IF x < 0 THEN -x ELSE x

Sign(x) == IF x < 0 THEN -1 ELSE IF x > 0 THEN 1 ELSE 0

-----------------------------------------------------------------------------
(* Zone registries *)

\* config["zones"][i]["weight"], in hundredths
DailyWeights == <<12, 10, 8, 6, 5, 5, 4, 3>>

\* ponds[i]["weight"], in hundredths
BrineWeights == <<60, 40>>

\* counties[i]["weight"] of check_ndvi_drop, in thousandths
NdviWeights ==
    <<62, 51, 50, 49, 45, 44, 42, 41, 40, 38, 37, 36, 35, 34, 33, 32, 31, 30,
      29, 28>>

\* COUNTIES[i]["weight"] of main, in hundredths of a percent of the acreage,
\* before the normalisation of lines 87-89
MainWeights ==
    <<173, 155, 126, 118, 112, 109, 104, 96, 91, 88, 85, 83, 80, 78, 76, 73,
      70, 68, 66, 64>>

Weights(pr) ==
    CASE pr = "daily" -> DailyWeights
      [] pr = "brine" -> BrineWeights
      [] pr = "ndvi"  -> NdviWeights
      [] pr = "main"  -> MainWeights

ZoneCount(pr) == Min(NumZones, Len(Weights(pr)))

Zones(pr) == 1..ZoneCount(pr)

Weight(pr, z) == Weights(pr)[z]

-----------------------------------------------------------------------------
(* Arithmetic of the anomaly engine *)

RECURSIVE SumSeq(_)
SumSeq(s) == IF s = <<>> THEN 0 ELSE Head(s) + SumSeq(Tail(s))

RECURSIVE SumSqSeq(_)
SumSqSeq(s) == IF s = <<>> THEN 0 ELSE Head(s) * Head(s) + SumSqSeq(Tail(s))

\* round(a / b) for b # 0, halves away from zero
RoundDiv(a, b) ==
    Sign(a) * Sign(b) * ((2 * Abs(a) + Abs(b)) \div (2 * Abs(b)))

RECURSIVE IsqrtIn(_, _, _)
IsqrtIn(x, lo, hi) ==
    IF lo >= hi THEN lo
    ELSE LET mid == (lo + hi + 1) \div 2
         IN  IF mid * mid <= x THEN IsqrtIn(x, mid, hi)
             ELSE IsqrtIn(x, lo, mid - 1)

\* floor(sqrt(x)), x in 0 .. 2^30
Isqrt(x) == IsqrtIn(x, 0, 32768)

\* floor(40000 * n / d) for n >= 0, d > 0, without leaving 32 bits
Floor40000(n, d) ==
    LET q  == n \div d
        r  == n % d
        q1 == (200 * r) \div d
        r1 == (200 * r) % d
    IN  40000 * q + 200 * q1 + (200 * r1) \div d

\* compute_anomaly that asks only for the two values statistics.stdev needs
compute_anomaly_TwoSamples(history, current) ==
    LET n   == Len(history)
        S   == SumSeq(history)
        Q   == SumSqSeq(history)
        dev == n * current - S
        var == n * Q - S * S
    IN  IF n < 2 THEN [err |-> FALSE, anomaly |-> 0, zscore |-> 0]
        ELSE IF var = 0 THEN [err |-> FALSE, anomaly |-> 0, zscore |-> 0]
        ELSE IF S = 0 THEN [err |-> TRUE, anomaly |-> 0, zscore |-> 0]
        ELSE [err     |-> FALSE,
              anomaly |-> RoundDiv(10000 * dev, S),
              zscore  |-> Sign(dev) *
                          ((Isqrt(Floor40000(dev * dev * (n - 1), n * var)) + 1)
                               \div 2)]

\* utils.compute_anomaly: history is the sequence of past readings of the
\* zone, current the reading of today.  The result is (anomaly, zscore) in
\* hundredths; err stands for the ZeroDivisionError of `/ avg`.
\*   avg = S/n, std = sqrt((Q - S^2/n)/(n-1))   (statistics.stdev: sample)
\*   (current - avg)/avg   = (n*current - S)/S
\*   ((current - avg)/std)^2 = (n*current - S)^2 (n-1) / (n (nQ - S^2))
compute_anomaly(history, current) ==
    LET n   == Len(history)
        S   == SumSeq(history)
        Q   == SumSqSeq(history)
        dev == n * current - S
        var == n * Q - S * S
    IN  IF n < MIN_SAMPLES THEN [err |-> FALSE, anomaly |-> 0, zscore |-> 0]
        ELSE IF var = 0 THEN [err |-> FALSE, anomaly |-> 0, zscore |-> 0]
        ELSE IF S = 0 THEN [err |-> TRUE, anomaly |-> 0, zscore |-> 0]
        ELSE [err     |-> FALSE,
              anomaly |-> RoundDiv(10000 * dev, S),
              zscore  |-> Sign(dev) *
                          ((Isqrt(Floor40000(dev * dev * (n - 1), n * var)) + 1)
                               \div 2)]

-----------------------------------------------------------------------------
(* The history file *)

HeaderLine ==
    [hdr |-> TRUE, date |-> 0, zone |-> 0, value |-> 0, anomaly |-> 0, zscore |-> 0]

Row(date, zone, value, anomaly, zscore) ==
    [hdr |-> FALSE, date |-> date, zone |-> zone, value |-> value,
     anomaly |-> anomaly, zscore |-> zscore]

\* the data rows of the file: csv.DictReader takes the first line for the
\* field names and yields every later line
DataRows(f) == IF f = <<>> THEN <<>> ELSE Tail(f)

\* utils.load_ndvi_history: the rows of the zone, in file order
load_ndvi_history(f, zone) ==
    SelectSeq(DataRows(f), LAMBDA r : (~r.hdr) /\ r.zone = zone)

RECURSIVE ValuesOf(_)
ValuesOf(rows) ==
    IF rows = <<>> THEN <<>> ELSE <<Head(rows).value>> \o ValuesOf(Tail(rows))

\* utils.append_ndvi_record: header first when the file does not exist, then
\* the row, unconditionally
append_ndvi_record(f, date, zone, ndvi, anomaly, zscore) ==
    (IF f = <<>> THEN <<HeaderLine>> ELSE f)
        \o <<Row(date, zone, ndvi, anomaly, zscore)>>

-----------------------------------------------------------------------------
(* Index provider and notifier ports *)

\* the readings a provider call may give, in units of 0.04: 16 is 0.64
\* (utils.get_ndvi stands in for the decoded answer with a value
\* derived from hash(); the model draws the reading from the index domain)
Readings == {0, 16}

\* what a provider call may return: a reading or None (unavailable)
ProviderAnswers == Readings \cup {None}

\* Python truth of `if ndvi:`: None and 0 are false
Truthy(v) == v # None /\ v # 0

Msg(kind, p, zone, head, anomaly, zscore, label) ==
    [kind |-> kind, pass |-> loc[p].pass, zone |-> zone, date |-> loc[p].today,
     forced |-> loc[p].forced, head |-> head, anomaly |-> anomaly,
     zscore |-> zscore, label |-> label]

-----------------------------------------------------------------------------
(* Processes *)

\* results is the list of main (line 290); in the other deployments it is a
\* history variable: the zones that gave a reading in this pass
LocInit ==
    [zi |-> 0, today |-> 0, forced |-> FALSE, pass |-> 0, reading |-> None,
     history |-> <<>>, anomaly |-> 0, zscore |-> 0, score |-> 0, totw |-> 0,
     nsig |-> 0, results |-> <<>>]

Resting(p) ==
    pc[p] \in {"idle", "done", "aborted", "offseason", "exported", "tested"}

\* the locals of a pass that starts now
StartLoc(force) ==
    [LocInit EXCEPT !.zi = 1, !.today = now, !.forced = force,
                    !.pass = passes + 1]

\* end of the loop body: next zone, or the code after the loop (the locals of
\* the iteration are dead: the next iteration assigns them before any use)
NextZone(p, l) ==
    LET m == [l EXCEPT !.reading = None, !.history = <<>>, !.anomaly = 0,
                       !.zscore = 0]
    IN  IF l.zi < ZoneCount(prog)
        THEN /\ pc' = [pc EXCEPT ![p] = "fetch"]
             /\ loc' = [loc EXCEPT ![p] = [m EXCEPT !.zi = l.zi + 1]]
        ELSE /\ pc' = [pc EXCEPT ![p] = "global"]
             /\ loc' = [loc EXCEPT ![p] = m]

\* an uncaught exception ends the pass where it stands
Abort(p) ==
    /\ pc' = [pc EXCEPT ![p] = "aborted"]
    /\ UNCHANGED loc

-----------------------------------------------------------------------------
(* daily_check  (src/maize_monitor/config.py, src/utils.py, src/telegram.py) *)

\* should_trigger_alert without its test of the z-score
should_trigger_alert_NoZscore(zone_name, anomaly, zscore, f, clock) ==
    LET history == load_ndvi_history(f, zone_name)
    IN  IF history = <<>> THEN FALSE
        ELSE LET last_entry == history[Len(history)]
                 days_since == clock - last_entry.date
             IN  /\ anomaly <= THRESHOLD_DROP_PCT
                 /\ days_since >= MIN_DAYS_BETWEEN_SIGNALS

\* utils.should_trigger_alert, datetime.today() given as clock
should_trigger_alert(zone_name, anomaly, zscore, f, clock) ==
    LET history == load_ndvi_history(f, zone_name)
    IN  IF history = <<>> THEN FALSE
        ELSE LET last_entry == history[Len(history)]
                 days_since == clock - last_entry.date
             IN  /\ anomaly <= THRESHOLD_DROP_PCT
                 /\ zscore <= THRESHOLD_Z
                 /\ days_since >= MIN_DAYS_BETWEEN_SIGNALS

\* the global gate of daily_check, lines 73-74
InGlobalGate(anomaly, zscore) ==
    anomaly <= THRESHOLD_DROP_PCT /\ zscore <= THRESHOLD_Z

\* lines 64-69
DailyLabel(weight) ==
    IF weight >= 10 THEN "Zone tres importante"
    ELSE IF weight >= 5 THEN "Zone moderement importante"
    ELSE "Zone secondaire"

\* lines 35-37: today, global_alert_score = 0
StartDaily(p) ==
    /\ prog = "daily"
    /\ Resting(p)
    /\ passes < MaxPasses
    /\ passes' = passes + 1
    /\ pc' = [pc EXCEPT ![p] = "fetch"]
    /\ loc' = [loc EXCEPT ![p] = StartLoc(FALSE)]
    /\ UNCHANGED <<prog, now, file, sent, ticks>>

\* lines 45-46: load_ndvi_history, then get_ndvi, whose requests.post calls
\* are not guarded: an exception of the HTTP client leaves daily_check
FetchDaily(p) ==
    /\ prog = "daily"
    /\ pc[p] = "fetch"
    /\ \/ \E r \in ProviderAnswers :
            /\ loc' = [loc EXCEPT ![p] =
                   [@ EXCEPT !.reading = r,
                             !.history = ValuesOf(load_ndvi_history(file, loc[p].zi))]]
            /\ pc' = [pc EXCEPT ![p] = "fetched"]
       \/ Abort(p)
    /\ UNCHANGED <<prog, now, file, sent, passes, ticks>>

\* lines 48-50: `if ndvi:` compute_anomaly and append_ndvi_record
RecordDaily(p) ==
    /\ prog = "daily"
    /\ pc[p] = "fetched"
    /\ Truthy(loc[p].reading)
    /\ LET l   == loc[p]
           res == compute_anomaly(l.history, l.reading)
       IN  IF res.err
           THEN Abort(p) /\ UNCHANGED file
           ELSE /\ file' = append_ndvi_record(file, l.today, l.zi, l.reading,
                                             res.anomaly, res.zscore)
                /\ loc' = [loc EXCEPT ![p] =
                       [l EXCEPT !.anomaly = res.anomaly,
                                 !.zscore = res.zscore,
                                 !.results = Append(@, [zone |-> l.zi,
                                                        z |-> res.zscore])]]
                /\ pc' = [pc EXCEPT ![p] = "alert"]
    /\ UNCHANGED <<prog, now, sent, passes, ticks>>

\* an else branch that counts the zone in the global score
SkipDailyCounted(p) ==
    /\ prog = "daily"
    /\ pc[p] = "fetched"
    /\ ~Truthy(loc[p].reading)
    /\ NextZone(p, [loc[p] EXCEPT !.score = @ + Weight("daily", loc[p].zi)])
    /\ UNCHANGED <<prog, now, file, sent, passes, ticks>>

\* lines 76-77: the else branch, nothing but a print
SkipDaily(p) ==
    /\ prog = "daily"
    /\ pc[p] = "fetched"
    /\ ~Truthy(loc[p].reading)
    /\ NextZone(p, loc[p])
    /\ UNCHANGED <<prog, now, file, sent, passes, ticks>>

\* an alert step that counts a zone in the global score only when its
\* individual alert was sent
AlertDailyTied(p) ==
    /\ prog = "daily"
    /\ pc[p] = "alert"
    /\ LET l      == loc[p]
           weight == Weight("daily", l.zi)
           added  == [l EXCEPT !.score =
                          IF InGlobalGate(l.anomaly, l.zscore)
                          THEN @ + weight ELSE @]
       IN  IF should_trigger_alert(l.zi, l.anomaly, l.zscore, file, now)
           THEN \/ /\ sent' = Append(sent,
                          Msg("zone", p, l.zi, "Chute NDVI detectee",
                              l.anomaly, l.zscore, DailyLabel(weight)))
                   /\ NextZone(p, added)
                \/ Abort(p) /\ UNCHANGED sent
           ELSE /\ NextZone(p, l)
                /\ UNCHANGED sent
    /\ UNCHANGED <<prog, now, file, passes, ticks>>

\* lines 52-74: the individual alert (plot_ndvi and send_telegram_message of
\* src/telegram.py catch nothing: an exception leaves daily_check), then the
\* weighted addition to the global score
AlertDaily(p) ==
    /\ prog = "daily"
    /\ pc[p] = "alert"
    /\ LET l      == loc[p]
           weight == Weight("daily", l.zi)
           added  == [l EXCEPT !.score =
                          IF InGlobalGate(l.anomaly, l.zscore)
                          THEN @ + weight ELSE @]
       IN  IF should_trigger_alert(l.zi, l.anomaly, l.zscore, file, now)
           THEN \/ /\ sent' = Append(sent,
                          Msg("zone", p, l.zi, "Chute NDVI detectee",
                              l.anomaly, l.zscore, DailyLabel(weight)))
                   /\ NextZone(p, added)
                \/ Abort(p) /\ UNCHANGED sent
           ELSE /\ NextZone(p, added)
                /\ UNCHANGED sent
    /\ UNCHANGED <<prog, now, file, passes, ticks>>

\* lines 79-82: the global alert
GlobalDaily(p) ==
    /\ prog = "daily"
    /\ pc[p] = "global"
    /\ IF loc[p].score >= GLOBAL_COVERAGE
       THEN \/ /\ sent' = Append(sent,
                      Msg("global", p, 0, "ALERTE GLOBALE NDVI", 0, 0, ""))
               /\ pc' = [pc EXCEPT ![p] = "done"]
            \/ /\ pc' = [pc EXCEPT ![p] = "aborted"]
               /\ UNCHANGED sent
       ELSE /\ pc' = [pc EXCEPT ![p] = "done"]
            /\ UNCHANGED sent
    /\ UNCHANGED <<prog, now, file, passes, ticks, loc>>

-----------------------------------------------------------------------------
(* check_brine_change  (src/lithium_monitor/main.py, telegram.py beside it) *)

\* THRESHOLD_PCT = 7, in hundredths of a percent
THRESHOLD_PCT == 700
\* THRESHOLD_NEG = -7
THRESHOLD_NEG == -700
\* `len(history) < 10` in lithium_monitor compute_anomaly
BRINE_MIN_SAMPLES == 10
\* `abs(global_signal) >= 0.3`, in hundredths
BRINE_GLOBAL_THRESHOLD == 30

\* the areas get_brine_area may give, in hectares (the stand-in of line 68
\* draws 0.8 to 1.2 million m2), or None, which line 130 provides for
Areas == {80, 120}

BrineAnswers == Areas \cup {None}

\* lithium_monitor.load_history
load_history(f, zone) ==
    SelectSeq(DataRows(f), LAMBDA r : (~r.hdr) /\ r.zone = zone)

\* the compute_anomaly of lithium_monitor without its minimum of samples
brine_compute_anomaly_NoMinimum(history, current) ==
    LET n == Len(history)
        S == SumSeq(history)
    IN  IF n = 0 THEN 0
        ELSE RoundDiv(10000 * (n * current - S), S)

\* lithium_monitor.compute_anomaly: round((current - mean) / mean * 100, 2),
\* in hundredths; (current - mean)/mean = (n*current - S)/S.  The areas are
\* positive, so the mean is.
brine_compute_anomaly(history, current) ==
    LET n == Len(history)
        S == SumSeq(history)
    IN  IF n < BRINE_MIN_SAMPLES THEN 0
        ELSE RoundDiv(10000 * (n * current - S), S)

\* append_record that opens the file for writing instead of appending
append_record_Rewrite(f, date_iso, zone, area, anomaly) ==
    <<HeaderLine, Row(date_iso, zone, area, anomaly, 0)>>

\* lithium_monitor.append_record
append_record(f, date_iso, zone, area, anomaly) ==
    (IF f = <<>> THEN <<HeaderLine>> ELSE f)
        \o <<Row(date_iso, zone, area, anomaly, 0)>>

\* line 140: the condition of the individual alert
BrineAlert(force_alert, anomaly) ==
    force_alert \/ anomaly >= THRESHOLD_PCT \/ anomaly <= THRESHOLD_NEG

\* line 141
BrineDirection(anomaly) ==
    IF anomaly >= THRESHOLD_PCT THEN "SUR-pompage" ELSE "CONTRAINTE"

\* line 148: the signed weight added to global_signal
BrineContribution(weight, anomaly) ==
    weight * (IF anomaly >= THRESHOLD_PCT THEN 1 ELSE -1)

\* the condition of the global alert without its threshold
BrineGlobalNoThreshold(force_alert, global_signal) ==
    global_signal # 0 \/ force_alert

\* line 151: the condition of the global alert
BrineGlobal(force_alert, global_signal) ==
    Abs(global_signal) >= BRINE_GLOBAL_THRESHOLD \/ force_alert

\* lines 123-125: the date, then get_access_token, whose raise_for_status
\* leaves check_brine_change before the first pond
StartBrine(p) ==
    /\ prog = "brine"
    /\ Resting(p)
    /\ passes < MaxPasses
    /\ passes' = passes + 1
    /\ \E force \in BOOLEAN :
         /\ loc' = [loc EXCEPT ![p] = StartLoc(force)]
         /\ \/ pc' = [pc EXCEPT ![p] = "fetch"]
            \/ pc' = [pc EXCEPT ![p] = "aborted"]
    /\ UNCHANGED <<prog, now, file, sent, ticks>>

\* line 128: get_brine_area
FetchBrine(p) ==
    /\ prog = "brine"
    /\ pc[p] = "fetch"
    /\ \E r \in BrineAnswers :
         loc' = [loc EXCEPT ![p] = [@ EXCEPT !.reading = r]]
    /\ pc' = [pc EXCEPT ![p] = "fetched"]
    /\ UNCHANGED <<prog, now, file, sent, passes, ticks>>

\* lines 130-132: `if area is None: continue`
SkipBrine(p) ==
    /\ prog = "brine"
    /\ pc[p] = "fetched"
    /\ loc[p].reading = None
    /\ NextZone(p, loc[p])
    /\ UNCHANGED <<prog, now, file, sent, passes, ticks>>

\* lines 133-137: load_history, compute_anomaly, append_record (and
\* send_to_google_sheets, which keeps its errors to itself)
RecordBrine(p) ==
    /\ prog = "brine"
    /\ pc[p] = "fetched"
    /\ loc[p].reading # None
    /\ LET l       == loc[p]
           hist    == ValuesOf(load_history(file, l.zi))
           anomaly == brine_compute_anomaly(hist, l.reading)
       IN  /\ file' = append_record(file, l.today, l.zi, l.reading, anomaly)
           /\ loc' = [loc EXCEPT ![p] =
                  [l EXCEPT !.anomaly = anomaly,
                            !.results = Append(@, [zone |-> l.zi,
                                                   z |-> anomaly])]]
    /\ pc' = [pc EXCEPT ![p] = "alert"]
    /\ UNCHANGED <<prog, now, sent, passes, ticks>>

\* lines 139-148: the individual alert (send_telegram_message of
\* lithium_monitor/telegram.py catches every exception)
AlertBrine(p) ==
    /\ prog = "brine"
    /\ pc[p] = "alert"
    /\ LET l      == loc[p]
           weight == Weight("brine", l.zi)
       IN  IF BrineAlert(l.forced, l.anomaly)
           THEN /\ sent' = Append(sent,
                       Msg("zone", p, l.zi, BrineDirection(l.anomaly),
                           l.anomaly, 0, ""))
                /\ NextZone(p, [l EXCEPT !.score =
                                    @ + BrineContribution(weight, l.anomaly)])
           ELSE /\ NextZone(p, l)
                /\ UNCHANGED sent
    /\ UNCHANGED <<prog, now, file, passes, ticks>>

\* lines 150-153: the global alert
GlobalBrine(p) ==
    /\ prog = "brine"
    /\ pc[p] = "global"
    /\ pc' = [pc EXCEPT ![p] = "done"]
    /\ IF BrineGlobal(loc[p].forced, loc[p].score)
       THEN sent' = Append(sent,
                Msg("global", p, 0,
                    IF loc[p].score > 0 THEN "SURproduction (signal short)"
                    ELSE "Stress hydrique (signal long)",
                    loc[p].score, 0, ""))
       ELSE UNCHANGED sent
    /\ UNCHANGED <<prog, now, file, passes, ticks, loc>>

-----------------------------------------------------------------------------
(* check_ndvi_drop  (src/maize_monitor/main.py) *)

\* the pairs (ndvi_now, ndvi_prev) get_ndvi may give, in hundredths (line 119
\* draws each from 0.2 to 0.85): a drop and a steady reading
NdviInputs == {<<25, 70>>, <<70, 70>>}

\* day of the year of day d: day 0 is the last day before the season
DayOfYear(d) == 119 + d

\* line 167
OffSeason(doy) == doy < 120 \/ doy > 260

\* determine_stage: the threshold of the stage, in hundredths
determine_stage(doy) ==
    IF doy < 130 THEN 30 ELSE IF doy < 160 THEN 55 ELSE 70

\* line 181: zscore = (ndvi_now - 0.6) / 0.15, here 15 * zscore
Z15(ndvi_now) == ndvi_now - 60

\* line 187: zscore <= -1.5 is 2 * 15 * zscore <= -45, delta < -0.1 is
\* delta < -10 hundredths
NdviAlert(force_alert, ndvi_now, delta, thr) ==
    \/ ndvi_now < thr /\ (2 * Z15(ndvi_now) <= -45 \/ delta < -10)
    \/ force_alert

\* line 190
NdviHead(force_alert) == IF force_alert THEN "FAKE ALERT" ELSE "Alerte NDVI"

\* write_to_csv: the row goes to the end, after the header when the file
\* does not exist
write_to_csv(f, row) == (IF f = <<>> THEN <<HeaderLine>> ELSE f) \o <<row>>

\* lines 217-220: index = stress / total_w, in hundredths; score is
\* 15 * stress and index < -0.5 is 2 * score < -15 * total_w
NdviIndex(score, total_w) ==
    IF total_w # 0 THEN RoundDiv(100 * score, 15 * total_w) ELSE 0

NdviSummary(score, total_w, nsig) ==
    IF nsig >= 5 /\ total_w # 0 /\ 2 * score < -15 * total_w
    THEN "Stress Index + Opportunite potentielle"
    ELSE "Stress Index"

\* lines 165-175: out of the season nothing is done; get_access_token may
\* raise before the first county
StartNdvi(p) ==
    /\ prog = "ndvi"
    /\ Resting(p)
    /\ passes < MaxPasses
    /\ passes' = passes + 1
    /\ \E force \in BOOLEAN :
         /\ loc' = [loc EXCEPT ![p] = StartLoc(force)]
         /\ IF OffSeason(DayOfYear(now))
            THEN pc' = [pc EXCEPT ![p] = "offseason"]
            ELSE \/ pc' = [pc EXCEPT ![p] = "fetch"]
                 \/ pc' = [pc EXCEPT ![p] = "aborted"]
    /\ UNCHANGED <<prog, now, file, sent, ticks>>

\* lines 178-185: the two readings (reading is ndvi_now, anomaly is delta),
\* stress and total_w
FetchNdvi(p) ==
    /\ prog = "ndvi"
    /\ pc[p] = "fetch"
    /\ \E in \in NdviInputs :
         LET ndvi_now  == in[1]
             ndvi_prev == in[2]
         IN
         loc' = [loc EXCEPT ![p] =
                    [@ EXCEPT !.reading = ndvi_now,
                              !.anomaly = ndvi_now - ndvi_prev,
                              !.zscore = RoundDiv(100 * Z15(ndvi_now), 15),
                              !.results = Append(@, [zone |-> loc[p].zi,
                                     z |-> RoundDiv(100 * Z15(ndvi_now), 15)]),
                              !.score = @ + Z15(ndvi_now) * Weight("ndvi", loc[p].zi),
                              !.totw = @ + Weight("ndvi", loc[p].zi)]]
    /\ pc' = [pc EXCEPT ![p] = "alert"]
    /\ UNCHANGED <<prog, now, file, sent, passes, ticks>>

\* lines 187-196: the alert, sent before the row is written
\* (send_telegram_message of this file catches every exception)
AlertNdvi(p) ==
    /\ prog = "ndvi"
    /\ pc[p] = "alert"
    /\ LET l   == loc[p]
           thr == determine_stage(DayOfYear(l.today))
       IN  IF NdviAlert(l.forced, l.reading, l.anomaly, thr)
           THEN /\ sent' = Append(sent,
                       Msg("zone", p, l.zi, NdviHead(l.forced), l.anomaly,
                           l.zscore, ""))
                /\ loc' = [loc EXCEPT ![p] = [l EXCEPT !.nsig = @ + 1]]
           ELSE UNCHANGED <<sent, loc>>
    /\ pc' = [pc EXCEPT ![p] = "record"]
    /\ UNCHANGED <<prog, now, file, passes, ticks>>

\* lines 198-215: write_to_csv (send_to_google_sheets keeps its errors)
RecordNdvi(p) ==
    /\ prog = "ndvi"
    /\ pc[p] = "record"
    /\ LET l == loc[p]
       IN  /\ file' = write_to_csv(file,
                          Row(l.today, l.zi, l.reading, l.anomaly, l.zscore))
           /\ NextZone(p, l)
    /\ UNCHANGED <<prog, now, sent, passes, ticks>>

\* lines 217-224: the summary, whatever the index, then the visual report
GlobalNdvi(p) ==
    /\ prog = "ndvi"
    /\ pc[p] = "global"
    /\ pc' = [pc EXCEPT ![p] = "done"]
    /\ LET l == loc[p]
       IN  sent' = sent \o
              << Msg("global", p, 0, NdviSummary(l.score, l.totw, l.nsig),
                     NdviIndex(l.score, l.totw), 0, ""),
                 Msg("report", p, 0, "Rapport visuel", 0, 0, "") >>
    /\ UNCHANGED <<prog, now, file, passes, ticks, loc>>

-----------------------------------------------------------------------------
(* main  (src/main.py) *)

\* what process_county may compute: the z-score, in hundredths, and whether
\* today_ndvi < dynamic_threshold and (z_score <= -1.5 or delta7 <= -0.1):
\* a stressed county and a healthy one
MainInputs == {<<-200, TRUE>>, <<50, FALSE>>}

\* TOTAL_WEIGHT, line 87: the sum over the registry
RECURSIVE WeightSum(_, _)
WeightSum(pr, zs) ==
    IF zs = {} THEN 0
    ELSE LET z == CHOOSE x \in zs : TRUE
         IN  Weight(pr, z) + WeightSum(pr, zs \ {z})

TOTAL_WEIGHT == WeightSum("main", Zones("main"))

\* lines 247-251
MainStatus(z_score, low) ==
    IF z_score <= -200 THEN "ALERT" ELSE IF low THEN "WARNING" ELSE "OK"

\* line 300: sum(r['weight'] * r['z']) with the normalised weights, as the
\* pair (numerator, denominator)
RECURSIVE WeightedZ(_)
WeightedZ(results) ==
    IF results = <<>> THEN 0
    ELSE Weight("main", Head(results).zone) * Head(results).z
             + WeightedZ(Tail(results))

stress_index(results) == <<WeightedZ(results), TOTAL_WEIGHT>>

\* lines 289-290
StartMain(p) ==
    /\ prog = "main"
    /\ Resting(p)
    /\ passes < MaxPasses
    /\ passes' = passes + 1
    /\ loc' = [loc EXCEPT ![p] = StartLoc(FALSE)]
    /\ pc' = [pc EXCEPT ![p] = "fetch"]
    /\ UNCHANGED <<prog, now, file, sent, ticks>>

\* lines 292-297: process_county inside try: its message and its result, or
\* an exception (of the provider, of send_telegram), which is logged
CountyMain(p) ==
    /\ prog = "main"
    /\ pc[p] = "fetch"
    /\ LET l == loc[p]
       IN  \/ \E in \in MainInputs :
                /\ sent' = Append(sent,
                       Msg("status", p, l.zi, MainStatus(in[1], in[2]), 0,
                           in[1], ""))
                /\ NextZone(p, [l EXCEPT !.results =
                                    Append(@, [zone |-> l.zi, z |-> in[1]])])
           \/ /\ NextZone(p, l)
              /\ UNCHANGED sent
    /\ UNCHANGED <<prog, now, file, passes, ticks>>

\* lines 299-305: the stress index, handed to send_telegram whatever its value
GlobalMain(p) ==
    /\ prog = "main"
    /\ pc[p] = "global"
    /\ pc' = [pc EXCEPT ![p] = "done"]
    /\ LET idx == stress_index(loc[p].results)
       IN  sent' = Append(sent,
                      Msg("global", p, 0, "Corn-Belt Stress Index",
                          RoundDiv(idx[1], idx[2]), 0, ""))
    /\ UNCHANGED <<prog, now, file, passes, ticks, loc>>

-----------------------------------------------------------------------------
(* The clock *)

\* Time passes: a day, or the MIN_DAYS_BETWEEN_SIGNALS days that the code
\* tells apart.  Only StartX and should_trigger_alert read the clock, so time
\* that passes anywhere inside a pass is the same as time that passes while
\* the pass waits in a provider call (get_ndvi sets no timeout) or after it.
Elapsed == {1, MIN_DAYS_BETWEEN_SIGNALS}

Tick ==
    /\ ticks < MaxTicks
    /\ \/ \A p \in Procs : Resting(p)
       \/ prog = "daily" /\ \E p \in Procs : pc[p] = "fetch"
    /\ ticks' = ticks + 1
    /\ \E d \in Elapsed : now' = now + d
    /\ UNCHANGED <<prog, file, sent, passes, pc, loc>>

-----------------------------------------------------------------------------
(* Initial states *)

\* five earlier daily passes over the modelled zones: the first readings of a
\* zone are stored with anomaly 0 and z-score 0 (fewer than MIN_SAMPLES)
DailySeries(z) ==
    IF z % 2 = 1 THEN <<16, 16, 20, 24, 24>> ELSE <<19, 19, 20, 21, 21>>

DailySeed ==
    LET n == ZoneCount("daily")
    IN  <<HeaderLine>> \o
        [i \in 1..(MIN_SAMPLES * n) |->
            LET k == ((i - 1) \div n) + 1
                z == ((i - 1) % n) + 1
            IN  Row(k - MIN_SAMPLES - 1, z, DailySeries(z)[k], 0, 0)]

InitCommon ==
    /\ now = 0
    /\ sent = <<>>
    /\ passes = 0
    /\ ticks = 0
    /\ pc = [p \in Procs |-> "idle"]
    /\ loc = [p \in Procs |-> LocInit]

InitDaily ==
    /\ prog = "daily"
    /\ file \in {<<>>, DailySeed}
    /\ InitCommon

\* passes run one after another, by process 1
DailyStep(p) ==
    \/ StartDaily(p)
    \/ FetchDaily(p)
    \/ RecordDaily(p)
    \/ SkipDaily(p)
    \/ AlertDaily(p)
    \/ GlobalDaily(p)

NextDaily == Tick \/ DailyStep(1)

SpecDaily == InitDaily /\ [][NextDaily]_vars

\* ten earlier passes over both ponds, stored with anomaly 0 (fewer than
\* BRINE_MIN_SAMPLES rows each time)
BrineSeed ==
    LET n == ZoneCount("brine")
    IN  <<HeaderLine>> \o
        [i \in 1..(BRINE_MIN_SAMPLES * n) |->
            LET k == ((i - 1) \div n) + 1
                z == ((i - 1) % n) + 1
            IN  Row(k - BRINE_MIN_SAMPLES - 1, z, 100, 0, 0)]

InitBrine ==
    /\ prog = "brine"
    /\ file \in {<<>>, BrineSeed}
    /\ InitCommon

BrineStep(p) ==
    \/ StartBrine(p)
    \/ FetchBrine(p)
    \/ SkipBrine(p)
    \/ RecordBrine(p)
    \/ AlertBrine(p)
    \/ GlobalBrine(p)

NextBrine == Tick \/ BrineStep(1)

SpecBrine == InitBrine /\ [][NextBrine]_vars

InitNdvi ==
    /\ prog = "ndvi"
    /\ file = <<>>
    /\ InitCommon

NdviStep(p) ==
    \/ StartNdvi(p)
    \/ FetchNdvi(p)
    \/ AlertNdvi(p)
    \/ RecordNdvi(p)
    \/ GlobalNdvi(p)

NextNdvi == Tick \/ NdviStep(1)

SpecNdvi == InitNdvi /\ [][NextNdvi]_vars

InitMain ==
    /\ prog = "main"
    /\ file = <<>>
    /\ InitCommon

MainStep(p) ==
    \/ StartMain(p)
    \/ CountyMain(p)
    \/ GlobalMain(p)

NextMain == Tick \/ MainStep(1)

SpecMain == InitMain /\ [][NextMain]_vars

\* every deployment
Init == InitDaily \/ InitBrine \/ InitNdvi \/ InitMain

Next == Tick \/ DailyStep(1) \/ BrineStep(1) \/ NdviStep(1) \/ MainStep(1)

Spec == Init /\ [][Next]_vars

-----------------------------------------------------------------------------
(* Properties *)

\* the individual alerts among the messages
ZoneAlerts == {i \in DOMAIN sent : sent[i].kind = "zone"}

\* an aggregate message of pass k was handed to the notifier
AggregateSent(k) ==
    \E i \in DOMAIN sent : sent[i].kind = "global" /\ sent[i].pass = k

\* the zones pass k notified individually
AlertedZones(k) ==
    {z \in Zones(prog) :
        \E i \in ZoneAlerts : sent[i].pass = k /\ sent[i].zone = z}

\* C1: after any sequence of passes the history holds at most one record for
\* each (zone, date): a second pass on a day adds no second record for the
\* zone and that day.
C1_OneRecordPerZoneDate ==
    \A i, j \in DOMAIN file :
        (i < j /\ ~file[i].hdr /\ ~file[j].hdr)
            => ~(file[i].zone = file[j].zone /\ file[i].date = file[j].date)

\* C2: across non-forced passes run one after another, no zone is notified
\* individually twice with notification dates less than
\* MIN_DAYS_BETWEEN_SIGNALS days apart.
C2_AlertsSevenDaysApart ==
    \A i, j \in ZoneAlerts :
        (i < j /\ sent[i].zone = sent[j].zone
               /\ ~sent[i].forced /\ ~sent[j].forced)
            => sent[j].date - sent[i].date >= MIN_DAYS_BETWEEN_SIGNALS

\* no individual alert of the zone is less than MIN_DAYS_BETWEEN_SIGNALS days
\* before the day
NoRecentAlert(zone, day) ==
    \A i \in ZoneAlerts :
        sent[i].zone = zone => day - sent[i].date >= MIN_DAYS_BETWEEN_SIGNALS

\* C3: in daily_check, for a reading that passes the gate, the decision is
\* false while fewer than 7 days separate today from the last alert of the
\* zone, and true once 7 days or more separate them (so that a due alert is
\* notified and one alert does not suppress those after it for ever).
C3_DecisionFollowsLastAlert ==
    \A p \in Procs :
        (prog = "daily" /\ pc[p] = "alert"
            /\ InGlobalGate(loc[p].anomaly, loc[p].zscore))
        => (should_trigger_alert(loc[p].zi, loc[p].anomaly, loc[p].zscore,
                                 file, now)
               <=> NoRecentAlert(loc[p].zi, loc[p].today))

\* C4: every individual alert of a non-forced daily_check pass carries an
\* anomaly of -15 % or less and a z-score of -1.0 or less; a reading that
\* fails either test is not notified.
C4_AlertsPassBothThresholds ==
    \A i \in ZoneAlerts :
        (prog = "daily" /\ ~sent[i].forced)
            => /\ sent[i].anomaly <= THRESHOLD_DROP_PCT
               /\ sent[i].zscore <= THRESHOLD_Z

\* daily_check has notified a zone
C4_Witness ==
    \E i \in ZoneAlerts : prog = "daily" /\ ~sent[i].forced

\* the message says it is forced, or a test
MarkedForced(m) == m.head = "FAKE ALERT"

\* the message says an anomaly, or a direction, was detected
StatesDetection(m) ==
    m.head \in {"SUR-pompage", "CONTRAINTE", "Chute NDVI detectee",
                "Alerte NDVI"}

\* the message is due to the force flag alone
ForceOnly(m) ==
    /\ m.forced
    /\ prog = "brine" =>
           ~(m.anomaly >= THRESHOLD_PCT \/ m.anomaly <= THRESHOLD_NEG)

\* C5: in a forced pass every zone that gave a reading is notified, and a
\* notification that is due to the force flag alone is marked as forced or
\* test and never says that an anomaly or a direction was detected.
C5_ForcedNotificationsMarked ==
    /\ \A p \in Procs :
          (prog \in {"brine", "ndvi"} /\ loc[p].forced
              /\ pc[p] \in {"global", "done"})
          => \A k \in DOMAIN loc[p].results :
                 loc[p].results[k].zone \in AlertedZones(loc[p].pass)
    /\ \A i \in ZoneAlerts :
          ForceOnly(sent[i])
              => MarkedForced(sent[i]) /\ ~StatesDetection(sent[i])

\* the weight of the zones that gave a result, and their weighted z-scores
RECURSIVE ValidWeight(_)
ValidWeight(results) ==
    IF results = <<>> THEN 0
    ELSE Weight("main", Head(results).zone) + ValidWeight(Tail(results))

\* C6: the aggregate score of main is the sum of z * weight over the zones
\* that gave a result divided by the sum of the weights of those zones; a
\* zone that failed is out of both sums, as if it were not in the registry.
C6_ScoreOverValidZones ==
    \A p \in Procs :
        (prog = "main" /\ pc[p] = "global" /\ loc[p].results # <<>>)
        => LET idx == stress_index(loc[p].results)
           IN  idx[1] * ValidWeight(loc[p].results)
                   = WeightedZ(loc[p].results) * idx[2]

\* C7: daily_check sends its global alert exactly when the weight of the
\* zones it notified individually in the pass, as a fraction of the total
\* weight of the registry, exceeds 10 %.
C7_GlobalIffAlertingShare ==
    \A p \in Procs :
        (prog = "daily" /\ pc[p] = "done")
        => (AggregateSent(loc[p].pass)
               <=> 100 * WeightSum("daily", AlertedZones(loc[p].pass))
                       > GLOBAL_COVERAGE * WeightSum("daily", Zones("daily")))

\* the condition under which each deployment sends its aggregate message
CodeTrigger(p) ==
    CASE prog = "daily" -> loc[p].score >= GLOBAL_COVERAGE
      [] prog = "brine" ->
             Abs(loc[p].score) >= BRINE_GLOBAL_THRESHOLD \/ loc[p].forced
      [] prog = "ndvi"  -> TRUE
      [] prog = "main"  -> TRUE

\* the trigger of the aggregate alone: coverage for daily_check, the size of
\* the aggregate score for the others
AggregateTrigger(p) ==
    CASE prog = "daily" -> loc[p].score >= GLOBAL_COVERAGE
      [] prog = "brine" -> Abs(loc[p].score) >= BRINE_GLOBAL_THRESHOLD
      [] prog = "ndvi"  ->
             Abs(NdviIndex(loc[p].score, loc[p].totw)) >= BRINE_GLOBAL_THRESHOLD
      [] prog = "main"  ->
             LET idx == stress_index(loc[p].results)
             IN  Abs(RoundDiv(idx[1], idx[2])) >= BRINE_GLOBAL_THRESHOLD

\* the aggregate message of a pass comes once, after every zone of the pass
AggregateOnceAfterZones ==
    /\ \A i, j \in DOMAIN sent :
          (i < j /\ sent[i].kind = "global" /\ sent[j].pass = sent[i].pass)
              => sent[j].kind = "report"
    /\ \A p \in Procs :
          (pc[p] # "idle" /\ AggregateSent(loc[p].pass))
              => pc[p] = "done" /\ loc[p].zi = ZoneCount(prog)

C9_FailureNeverEndsPass ==
    \A p \in Procs :
        (prog = "daily" /\ pc[p] = "aborted") => loc[p].zi = ZoneCount(prog)

\* C10: a zone whose provider answers None is skipped with no effect: the
\* step that handles the answer leaves the history file, the messages, the
\* aggregate score and the results of the pass as they were.
C10_UnavailableZoneSkipped ==
    [][\A p \in Procs :
          (prog \in {"daily", "brine"} /\ pc[p] = "fetched"
              /\ loc[p].reading = None /\ pc'[p] # "fetched")
          => /\ file' = file
             /\ sent' = sent
             /\ loc'[p].score = loc[p].score
             /\ loc'[p].results = loc[p].results
             /\ pc'[p] \in {"fetch", "global"}]_vars

\* a pass of check_brine_change has ended after it skipped a pond
C10_Witness ==
    \E p \in Procs :
        /\ prog = "brine"
        /\ pc[p] = "done"
        /\ Len(loc[p].results) < ZoneCount(prog)

\* C11: in daily_check every successful fetch, whatever the reading in
\* -1.0..1.0 and 0 included, makes the pass append the record of the zone and
\* the day and go on to evaluate the zone for its alert.
C11_SuccessfulFetchRecorded ==
    [][\A p \in Procs :
          (prog = "daily" /\ pc[p] = "fetched" /\ loc[p].reading # None
              /\ pc'[p] # "fetched")
          => /\ pc'[p] = "alert"
             /\ file' = append_ndvi_record(file, loc[p].today, loc[p].zi,
                            loc[p].reading, loc'[p].anomaly, loc'[p].zscore)]_vars

\* C12: the record of today's reading of a zone is in the history file
\* before any alert about that reading is handed to the notifier: every
\* individual alert has its record of the same zone and day in the file.
C12_RecordBeforeNotification ==
    \A i \in ZoneAlerts :
        prog \in {"daily", "brine", "ndvi"}
            => \E k \in DOMAIN file :
                   /\ ~file[k].hdr
                   /\ file[k].zone = sent[i].zone
                   /\ file[k].date = sent[i].date

-----------------------------------------------------------------------------
(* Overlapping passes *)

\* every GET /force runs check_brine_change in the thread of its request
\* (lines 163-167) and nothing serialises two requests, so the steps of two
\* passes interleave freely
NextOverlap == Tick \/ BrineStep(1) \/ BrineStep(2)

SpecOverlap == InitBrine /\ [][NextOverlap]_vars

\* both passes are under way, each in its own process
Overlapping(k1, k2) ==
    \E p, q \in Procs :
        /\ p # q
        /\ ~Resting(p) /\ ~Resting(q)
        /\ loc[p].pass = k1 /\ loc[q].pass = k2

\* C13: when two passes overlap, at most one of them sends the individual
\* alert of a given zone within the suppression window, whatever the
\* interleaving of their steps.
C13_OverlapSingleAlert ==
    \A i, j \in ZoneAlerts :
        (i < j /\ sent[i].zone = sent[j].zone
               /\ Overlapping(sent[i].pass, sent[j].pass))
            => Abs(sent[j].date - sent[i].date) >= MIN_DAYS_BETWEEN_SIGNALS

-----------------------------------------------------------------------------
(* The anomaly engine on its own *)

\* longest history given to the engine
MaxLen == 6

\* the values of a history and of the current reading, in units of 0.04: the
\* index lies in -1.0 .. 1.0, so a history may have mean 0
CalcValues == {-1, 1, 2}

\* one more past value
CalcExtend(p) ==
    /\ prog = "calc"
    /\ pc[p] = "idle"
    /\ Len(loc[p].history) < MaxLen
    /\ \E v \in CalcValues :
         loc' = [loc EXCEPT ![p] = [@ EXCEPT !.history = Append(@, v)]]
    /\ UNCHANGED <<prog, now, file, sent, passes, ticks, pc>>

\* a call of utils.compute_anomaly (anomaly, zscore) and of the
\* compute_anomaly of lithium_monitor (kept in score) on the same arguments;
\* the ZeroDivisionError of utils.compute_anomaly leaves the call with no
\* result
CalcCompute(p) ==
    /\ prog = "calc"
    /\ pc[p] = "idle"
    /\ \E c \in CalcValues :
         LET res == compute_anomaly(loc[p].history, c)
         IN  IF res.err
             THEN /\ loc' = [loc EXCEPT ![p] = [@ EXCEPT !.reading = c]]
                  /\ pc' = [pc EXCEPT ![p] = "aborted"]
             ELSE /\ loc' = [loc EXCEPT ![p] =
                         [@ EXCEPT !.reading = c,
                                   !.anomaly = res.anomaly,
                                   !.zscore = res.zscore,
                                   !.score = brine_compute_anomaly(
                                                 loc[p].history, c)]]
                  /\ pc' = [pc EXCEPT ![p] = "done"]
    /\ UNCHANGED <<prog, now, file, sent, passes, ticks>>

InitCompute ==
    /\ prog = "calc"
    /\ file = <<>>
    /\ InitCommon

NextCompute == CalcExtend(1) \/ CalcCompute(1)

SpecCompute == InitCompute /\ [][NextCompute]_vars

\* C14: for every history with fewer than MIN_SAMPLES entries compute_anomaly
\* returns the neutral result (anomaly 0, z-score 0) whatever the current
\* value, and raises no error (5 entries in utils, 10 in lithium_monitor).
C14_ShortHistoryNeutral ==
    \A p \in Procs :
        (prog = "calc" /\ pc[p] \in {"done", "aborted"})
        => /\ Len(loc[p].history) < MIN_SAMPLES
                => /\ pc[p] = "done"
                   /\ loc[p].anomaly = 0
                   /\ loc[p].zscore = 0
           /\ (Len(loc[p].history) < BRINE_MIN_SAMPLES /\ pc[p] = "done")
                => loc[p].score = 0

\* the engine was called on four uneven values and a current value away from
\* their mean
C14_Witness ==
    \E p \in Procs :
        /\ prog = "calc"
        /\ pc[p] = "done"
        /\ loc[p].history = <<1, 2, 2, 1>>
        /\ loc[p].reading = -1

\* all the values of the history are the same
ZeroVariance(history) ==
    \A k \in DOMAIN history : history[k] = history[1]

\* the values of the zone that were in the file before the pass of p added
\* its row
EarlierAreas(p) ==
    LET hist == ValuesOf(load_history(file, loc[p].zi))
    IN  SubSeq(hist, 1, Len(hist) - 1)

\* C15: for every history of at least MIN_SAMPLES entries that are all the
\* same, compute_anomaly returns the neutral result (0, 0) whatever the
\* current value: in utils (5 entries) and in lithium_monitor (10 entries,
\* the anomaly alone).
C15_ZeroVarianceNeutral ==
    \A p \in Procs :
        /\ (prog = "calc" /\ pc[p] \in {"done", "aborted"}
               /\ Len(loc[p].history) >= MIN_SAMPLES
               /\ ZeroVariance(loc[p].history))
           => pc[p] = "done" /\ loc[p].anomaly = 0 /\ loc[p].zscore = 0
        /\ (prog = "brine" /\ pc[p] = "alert"
               /\ Len(EarlierAreas(p)) >= BRINE_MIN_SAMPLES
               /\ ZeroVariance(EarlierAreas(p)))
           => loc[p].anomaly = 0

\* (current - mean) / stdev in hundredths, for a history of nonzero variance
ZScoreOf(history, current) ==
    LET n   == Len(history)
        S   == SumSeq(history)
        dev == n * current - S
        var == n * SumSqSeq(history) - S * S
    IN  Sign(dev) *
            ((Isqrt(Floor40000(dev * dev * (n - 1), n * var)) + 1) \div 2)

\* C16: on a history of at least MIN_SAMPLES entries with mean exactly 0 and
\* a nonzero standard deviation, compute_anomaly reports the error of the
\* anomaly and still gives the z-score to its caller (the call returns, so
\* the error stays with that zone of the pass).
C16_ZeroMeanKeepsZscore ==
    \A p \in Procs :
        (prog = "calc" /\ pc[p] \in {"done", "aborted"}
            /\ Len(loc[p].history) >= MIN_SAMPLES
            /\ SumSeq(loc[p].history) = 0
            /\ ~ZeroVariance(loc[p].history))
        => /\ pc[p] = "done"
           /\ loc[p].zscore = ZScoreOf(loc[p].history, loc[p].reading)

-----------------------------------------------------------------------------
(* The routes of lithium_monitor beside /force *)

\* a request is one more operation of the trigger surface: it is counted
\* with the passes
StartRequest(p) ==
    /\ prog = "brine"
    /\ Resting(p)
    /\ passes < MaxPasses
    /\ passes' = passes + 1

\* lines 169-171, GET /export: send_file gives the file as it is (results is
\* the body of the answer), or fails when there is no file
Export(p) ==
    /\ StartRequest(p)
    /\ loc' = [loc EXCEPT ![p] = [StartLoc(FALSE) EXCEPT !.results = file]]
    /\ pc' = [pc EXCEPT ![p] = IF file = <<>> THEN "aborted" ELSE "exported"]
    /\ UNCHANGED <<prog, now, file, sent, ticks>>

\* lines 173-181, GET /debug and GET /test: one diagnostic message each
Diagnostic(p) ==
    /\ StartRequest(p)
    /\ \E head \in {"Test diagnostic Lithium", "Test manuel Lithium"} :
         /\ loc' = [loc EXCEPT ![p] = StartLoc(FALSE)]
         /\ sent' = Append(sent,
                [kind |-> "test", pass |-> passes + 1, zone |-> 0,
                 date |-> now, forced |-> FALSE, head |-> head,
                 anomaly |-> 0, zscore |-> 0, label |-> ""])
    /\ pc' = [pc EXCEPT ![p] = "tested"]
    /\ UNCHANGED <<prog, now, file, ticks>>

\* the script of daily_check, or the server of lithium_monitor: its passes in
\* process 1, the other requests in process 2
InitSurface == InitDaily \/ InitBrine

NextSurface ==
    Tick \/ DailyStep(1) \/ BrineStep(1) \/ Export(2) \/ Diagnostic(2)

SpecSurface == InitSurface /\ [][NextSurface]_vars

\* f is the beginning of g
IsPrefix(f, g) ==
    /\ Len(f) <= Len(g)
    /\ \A k \in DOMAIN f : g[k] = f[k]

\* C17: the history file is append-only: every step of a pass, forced or
\* not, and of the requests /export, /test and /debug leaves the lines
\* already in the file unchanged and in place, and /export changes neither
\* the file nor the messages.
C17_AppendOnly ==
    [][/\ IsPrefix(file, file')
       /\ \A p \in Procs :
             (pc'[p] = "exported" /\ loc'[p].pass # loc[p].pass)
                 => file' = file /\ sent' = sent]_vars

\* a pass has added its rows to the seeded file and /export has answered
C17_Witness ==
    \E p \in Procs :
        /\ pc[p] = "exported"
        /\ Len(file) > Len(BrineSeed)
        /\ IsPrefix(BrineSeed, file)

-----------------------------------------------------------------------------
(* send_telegram_message  (src/lithium_monitor/telegram.py) *)

\* what the Telegram API may answer to a POST: HTTP 200 with ok true, HTTP
\* 200 with ok false, another HTTP status, or an exception of requests (the
\* timeout among them)
Answers == {"ok", "api_error", "http_error", "exception"}

\* a request handed to the HTTP client (sent keeps them in order)
Post(p, method, answer) ==
    [kind |-> "post", pass |-> loc[p].pass, zone |-> 0, date |-> now,
     forced |-> FALSE, head |-> method, anomaly |-> 0, zscore |-> 0,
     label |-> answer]

\* the end of the call, with its return value
Return(p, value) ==
    /\ pc' = [pc EXCEPT ![p] = "done"]
    /\ loc' = [loc EXCEPT ![p] = [@ EXCEPT !.ok = value]]

\* after the text: the photo when there is one, or return True (lines 73, 107)
AfterText(p) ==
    IF loc[p].image
    THEN pc' = [pc EXCEPT ![p] = "photo"] /\ UNCHANGED loc
    ELSE Return(p, TRUE)

\* lines 13-18: the call, with or without the two settings, a chat id of
\* digits or not, an image to send or not
SendCall(p) ==
    /\ prog = "send"
    /\ Resting(p)
    /\ passes < MaxPasses
    /\ passes' = passes + 1
    /\ \E configured, digits, image \in BOOLEAN :
         /\ loc' = [loc EXCEPT ![p] =
                [pass |-> passes + 1, digits |-> digits, image |-> image,
                 ok |-> FALSE]]
         /\ pc' = [pc EXCEPT ![p] = IF configured THEN "text" ELSE "done"]
    /\ UNCHANGED <<prog, now, file, sent, ticks>>

\* lines 30-70: the POST of the text and what follows its answer
SendText(p) ==
    /\ prog = "send"
    /\ pc[p] = "text"
    /\ \E a \in Answers :
         /\ sent' = Append(sent, Post(p, "sendMessage", a))
         /\ CASE a = "ok" -> AfterText(p)
              [] a = "api_error" ->
                    IF loc[p].digits
                    THEN pc' = [pc EXCEPT ![p] = "retry"] /\ UNCHANGED loc
                    ELSE Return(p, FALSE)
              [] OTHER -> Return(p, FALSE)
    /\ UNCHANGED <<prog, now, file, passes, ticks>>

\* lines 41-55: the same text again, with the chat id as an integer
SendRetry(p) ==
    /\ prog = "send"
    /\ pc[p] = "retry"
    /\ \E a \in Answers :
         /\ sent' = Append(sent, Post(p, "sendMessage", a))
         /\ IF a = "ok" THEN AfterText(p) ELSE Return(p, FALSE)
    /\ UNCHANGED <<prog, now, file, passes, ticks>>

\* lines 73-105: the photo
SendPhoto(p) ==
    /\ prog = "send"
    /\ pc[p] = "photo"
    /\ \E a \in Answers :
         /\ sent' = Append(sent, Post(p, "sendPhoto", a))
         /\ Return(p, a = "ok")
    /\ UNCHANGED <<prog, now, file, passes, ticks>>

InitSend ==
    /\ prog = "send"
    /\ file = <<>>
    /\ InitCommon

NextSend == SendCall(1) \/ SendText(1) \/ SendRetry(1) \/ SendPhoto(1)

SpecSend == InitSend /\ [][NextSend]_vars

\* the POSTs of the text made by call k
TextPosts(k) ==
    {i \in DOMAIN sent : sent[i].pass = k /\ sent[i].head = "sendMessage"}

\* C18: one call of send_telegram_message makes at most one delivery attempt
\* of the text: when the notifier answers with a failure the call reports
\* failed and does not send the text a second time.
C18_SingleDeliveryAttempt ==
    \A p \in Procs :
        prog = "send"
        => /\ Cardinality(TextPosts(loc[p].pass)) <= 1
           /\ \A i \in TextPosts(loc[p].pass) :
                  (sent[i].label # "ok" /\ pc[p] = "done") => ~loc[p].ok

-----------------------------------------------------------------------------
(* Progress of a pass *)

\* daily_check goes on by itself after each call that returns; get_ndvi
\* posts to the provider with no timeout (src/utils.py lines 86 and 165), so
\* nothing makes FetchDaily happen when the provider never answers
SpecDailyLive ==
    /\ SpecDaily
    /\ WF_vars(RecordDaily(1) \/ SkipDaily(1) \/ AlertDaily(1) \/ GlobalDaily(1))

\* C19: every pass eventually ends, even when a provider, token or notifier
\* call never answers: each external call is bounded by a timeout, after
\* which the pass goes on without the zone.
C19_PassEventuallyEnds ==
    \A p \in Procs : (pc[p] = "fetch") ~> (pc[p] \in {"done", "aborted"})

\* global_signal of a pass of check_brine_change that is not forced, over
\* the anomalies of the ponds that gave a reading
RECURSIVE NonForcedSignal(_)
NonForcedSignal(results) ==
    IF results = <<>> THEN 0
    ELSE LET r == Head(results)
         IN  (IF BrineAlert(FALSE, r.z)
              THEN BrineContribution(Weight("brine", r.zone), r.z)
              ELSE 0) + NonForcedSignal(Tail(results))

\* C20: the aggregate of a pass is the same whether the pass is forced or
\* not, over the same readings and history: the score, and whether the
\* global alert is sent, are those of the non-forced pass (forced individual
\* alerts add nothing to the aggregate).
C20_AggregateIgnoresForce ==
    \A p \in Procs :
        (prog = "brine" /\ pc[p] = "done")
        => /\ loc[p].score = NonForcedSignal(loc[p].results)
           /\ AggregateSent(loc[p].pass)
                  <=> BrineGlobal(FALSE, NonForcedSignal(loc[p].results))

\* the pass of p is at the alert of a zone that had fewer records than the
\* engine asks for when the pass read its history
ColdStart(p) ==
    \/ prog = "daily" /\ Len(loc[p].history) < MIN_SAMPLES
    \/ prog = "brine" /\ Len(EarlierAreas(p)) < BRINE_MIN_SAMPLES

\* C21: cold start never alerts: in a pass that is not forced, a zone with
\* fewer than MIN_SAMPLES earlier records (5 in daily_check, 10 in
\* check_brine_change) sends no individual alert and adds nothing to the
\* global score, whatever its reading.
C21_ColdStartNeverAlerts ==
    [][\A p \in Procs :
          (pc[p] = "alert" /\ pc'[p] # "alert" /\ ~loc[p].forced
              /\ ColdStart(p))
          => /\ sent' = sent
             /\ loc'[p].score = loc[p].score]_vars

\* a pass that is not forced has ended after it recorded readings in a file
\* of fewer than MIN_SAMPLES records, and nothing was sent
C21_Witness ==
    \E p \in Procs :
        /\ prog \in {"daily", "brine"}
        /\ pc[p] = "done"
        /\ ~loc[p].forced
        /\ loc[p].results # <<>>
        /\ Len(DataRows(file)) < MIN_SAMPLES
        /\ sent = <<>>

\* ---------------------------------------------------------------------------
\* append_record step by step: the test of line 83 and the write of lines
\* 84-88 are two file operations, and another request may run between them
\* ---------------------------------------------------------------------------

\* lines 133-134 and line 83: load_history, compute_anomaly, then
\* file_exists = os.path.exists(HISTORY_FILE), kept in the position of the
\* pass ("create" when the file was not there)
ExistsBrine(p) ==
    /\ prog = "brine"
    /\ pc[p] = "fetched"
    /\ loc[p].reading # None
    /\ LET l       == loc[p]
           hist    == ValuesOf(load_history(file, l.zi))
           anomaly == brine_compute_anomaly(hist, l.reading)
       IN  loc' = [loc EXCEPT ![p] =
                  [l EXCEPT !.anomaly = anomaly,
                            !.results = Append(@, [zone |-> l.zi,
                                                   z |-> anomaly])]]
    /\ pc' = [pc EXCEPT ![p] = IF file = <<>> THEN "create" ELSE "append"]
    /\ UNCHANGED <<prog, now, file, sent, passes, ticks>>

\* lines 84-88: open in append mode, writeheader() if file_exists was false,
\* writerow(); the buffered lines reach the end of the file together
WriteBrine(p) ==
    /\ prog = "brine"
    /\ pc[p] \in {"create", "append"}
    /\ LET l == loc[p]
       IN  file' = file
                \o (IF pc[p] = "create" THEN <<HeaderLine>> ELSE <<>>)
                \o <<Row(l.today, l.zi, l.reading, l.anomaly, 0)>>
    /\ pc' = [pc EXCEPT ![p] = "alert"]
    /\ UNCHANGED <<prog, now, sent, passes, ticks, loc>>

HeaderStep(p) ==
    \/ StartBrine(p)
    \/ FetchBrine(p)
    \/ SkipBrine(p)
    \/ ExistsBrine(p)
    \/ WriteBrine(p)
    \/ AlertBrine(p)
    \/ GlobalBrine(p)

\* two GET /force requests, each running check_brine_change in its thread
NextHeader == Tick \/ HeaderStep(1) \/ HeaderStep(2)

SpecHeader == InitBrine /\ [][NextHeader]_vars

\* C22: the history file holds exactly one header row, as its first line, and
\* every other line is a data record, after any sequence of appends, two
\* overlapping passes that both start without a file included.
C22_SingleHeaderFirst ==
    file # <<>> =>
        /\ file[1].hdr
        /\ \A k \in 2..Len(file) : ~file[k].hdr

=============================================================================
